---- MODULE Spec2Model ----
(***************************************************************************)
(* Order service (rust-wb-l0): the TTL cache of src/src/cache.rs, the      *)
(* create/get handlers of src/src/routes.rs and the expiry sweeper of      *)
(* src/src/main.rs.                                                        *)
(*                                                                         *)
(* Time is counted in whole seconds of the monotonic clock (Instant).      *)
(* The specifications share the variables:                                 *)
(*   CacheSpec  the Cache<T> methods called directly, any key, any value;  *)
(*   Spec       the handlers and the sweeper running as concurrent tasks;  *)
(*   FairSpec   handlers and sweeper at one instant of the clock, under    *)
(*              the fairness of the tokio runtime and of its Mutex;        *)
(*   MigSpec    as Spec, started with --migration: the migration task of   *)
(*              src/src/migrate.rs runs beside handlers and sweeper;       *)
(*   SweepSpec  the cache and the sweeper over more than one period of its *)
(*              interval, the clock advancing in steps of one ttl.         *)
(***************************************************************************)
EXTENDS Integers, Sequences, FiniteSets, TLC

\* ------------------------------------------------------------------ bounds
\* Number of distinct Uuid keys (cache keys, order_uid values).
MaxIds == 2
\* Number of distinct values of the generic T used when the cache is driven directly.
NumData == 2
\* The clock stops advancing past this second.
MaxTime == 61
\* Number of request-handling tasks that may run at once.
NumHandlers == 2
\* Largest number of line items in a request body.
MaxItems == 1

\* --------------------------------------------------------- program constants
\* Duration::from_secs(60) in Cache::update_record.
TTL_SECS == 60
\* Duration::from_secs(900), the period of the sweeper's interval.
SWEEP_PERIOD_SECS == 900
\* The number of columns of the row selected by OrderService::get_one_by_id.
ORDER_ROW_COLUMNS == 11

Uuids == 1..MaxIds
CacheData == 1..NumData
\* The clock advances by half a ttl or half a ttl plus one second, so that ages
\* below, equal to and above the ttl all occur.
TickSteps == {TTL_SECS \div 2, (TTL_SECS \div 2) + 1}

VARIABLES
    now,        \* Instant::now(), seconds
    records,    \* Cache.records: HashMap<Uuid, CachedRecord<T>>, a function on the present keys
    call,       \* the last direct call of a Cache method: operation, arguments, map before, result
    written,    \* history: per key, the data and the time of the last update_record
    hit,        \* history: the keys a get_record has hit since their last update_record
    dbLock,     \* AppState.db, tokio Mutex<Client>: 0 when free, else the task holding it
    cacheLock,  \* AppState.cache, tokio Mutex<Cache>: 0 when free, else the task holding it
    tables,     \* the committed rows of orders, delivery, payment and items, by order_uid
    tx,         \* the open Transaction: None, or Some(rows it has inserted so far)
    nextId,     \* the next order_uid the store generates
    pc,         \* per handler task: where it stands in its handler
    req,        \* per handler task: the request it serves
    uid,        \* per handler task: created_order_uuid, 0 before the header insert
    obs,        \* history, per handler task: what its request has done to store and cache
                \* (reads, lookups and updates made, inserts done in order, rollbacks attempted)
    returned,   \* the response returned in this step, with its request: NoReturn in every other step
    sweeper,    \* the sweeper task: where it stands in its loop
    nextSweep,  \* the sweeper's interval: the time of its next tick
    migrator,   \* the migration task: where it stands, "m_off" when none or ended
    failed,     \* history: order_uid -> the insert step its create failed at, and how the rollback went
    created     \* history: order_uid -> the aggregate of its successful create, and its cache insert time

cacheVars == <<now, records, call, written, hit>>
dbVars == <<tables, tx, nextId>>
taskVars == <<pc, req, uid, obs>>
\* The tasks main spawns: the sweeper and the migration.
spawnedVars == <<sweeper, nextSweep, migrator>>
histVars == <<failed, created>>
lockVars == <<dbLock, cacheLock>>
serviceVars == <<dbLock, cacheLock, tables, tx, nextId, pc, req, uid, obs, returned,
                 sweeper, nextSweep, migrator, failed, created>>
vars == <<now, records, call, written, hit, dbLock, cacheLock, tables, tx, nextId,
          pc, req, uid, obs, returned, sweeper, nextSweep, migrator, failed, created>>

Handlers == 1..NumHandlers
\* The task id of the sweeper, as a holder of the cache lock.
SweeperTask == NumHandlers + 1
\* The task id of the migration, as a holder of the client lock.
MigrationTask == NumHandlers + 2

\* Option<T>
None == << >>
Some(x) == <<x>>

\* ------------------------------------------------------------------ cache.rs
\* Instant::duration_since: saturates to zero when `earlier` is later than self.
duration_since(later, earlier) == IF later >= earlier THEN later - earlier ELSE 0

CachedRecord(data, ttl, at) ==
    [data |-> data, time_to_live |-> ttl, last_accessed |-> at]

\* HashMap::remove
MapRemove(recs, key) == [k \in (DOMAIN recs) \ {key} |-> recs[k]]

\* HashMap::insert
MapInsert(recs, key, rec) ==
    [k \in (DOMAIN recs) \cup {key} |-> IF k = key THEN rec ELSE recs[k]]

\* Mutant: the comparison of line 33 turned around.
GetExpired_Inverted(rec, t) == duration_since(t, rec.last_accessed) < rec.time_to_live

\* The expiry test of get_record, line 33.
GetExpired(rec, t) == duration_since(t, rec.last_accessed) > rec.time_to_live

\* Mutant: the retain predicate of line 58 with <= for <.
CleanupKeeps_Inclusive(rec, t) == duration_since(t, rec.last_accessed) <= rec.time_to_live

\* The retain predicate of cleanup_expired, line 58.
CleanupKeeps(rec, t) == duration_since(t, rec.last_accessed) < rec.time_to_live

\* Mutant: the refreshed clone of lines 30-31 is stored back on a hit.
get_record_Refreshing(recs, key, t) ==
    IF key \in DOMAIN recs
    THEN IF GetExpired(recs[key], t)
         THEN [records |-> MapRemove(recs, key), ret |-> None]
         ELSE [records |-> MapInsert(recs, key, [recs[key] EXCEPT !.last_accessed = t]),
               ret |-> Some(recs[key])]
    ELSE [records |-> recs, ret |-> None]

\* Cache::get_record: the map afterwards and the returned Option<CachedRecord<T>>.
\* The clone whose last_accessed is refreshed (lines 30-31) is dropped unused.
get_record(recs, key, t) ==
    IF key \in DOMAIN recs
    THEN IF GetExpired(recs[key], t)
         THEN [records |-> MapRemove(recs, key), ret |-> None]
         ELSE [records |-> recs, ret |-> Some(recs[key])]
    ELSE [records |-> recs, ret |-> None]

\* Mutant: an existing entry is kept (entry().or_insert) instead of overwritten.
update_record_KeepExisting(recs, key, new_data, t) ==
    IF key \in DOMAIN recs
    THEN recs
    ELSE MapInsert(recs, key, CachedRecord(new_data, TTL_SECS, t))

\* Cache::update_record: the map afterwards.
update_record(recs, key, new_data, t) ==
    MapInsert(recs, key, CachedRecord(new_data, TTL_SECS, t))

\* Cache::cleanup_expired: the map afterwards.
cleanup_expired(recs, t) ==
    [k \in {k2 \in DOMAIN recs : CleanupKeeps(recs[k2], t)} |-> recs[k]]

\* ---------------------------------------------------------------- the clock
Tick(d) ==
    /\ now + d <= MaxTime
    /\ now' = now + d
    /\ UNCHANGED <<records, call, written, hit>>
    /\ UNCHANGED <<dbLock, cacheLock, tables, tx, nextId, pc, req, uid, obs,
                   sweeper, nextSweep, migrator, failed, created>>

\* ------------------------------------------------------- history variables
\* The bookkeeping of a get_record(key) that returned `ret`.
NoteGet(key, ret) ==
    /\ hit' = IF ret # None THEN hit \cup {key} ELSE hit
    /\ UNCHANGED written

\* The bookkeeping of an update_record(key, new_data) at time t.
NoteUpdate(key, new_data, t) ==
    /\ written' = MapInsert(written, key, [data |-> new_data, at |-> t])
    /\ hit' = hit \ {key}

\* ------------------------------------------------- the cache called directly
NoCall == [op |-> "none", key |-> 0, data |-> 0, at |-> 0, before |-> << >>, ret |-> None]

CacheGet(key) ==
    /\ records' = get_record(records, key, now).records
    /\ call' = [op |-> "get_record", key |-> key, data |-> 0, at |-> now,
                before |-> records, ret |-> get_record(records, key, now).ret]
    /\ NoteGet(key, get_record(records, key, now).ret)
    /\ UNCHANGED now
    /\ UNCHANGED serviceVars

CacheUpdate(key, new_data) ==
    /\ records' = update_record(records, key, new_data, now)
    /\ call' = [op |-> "update_record", key |-> key, data |-> new_data, at |-> now,
                before |-> records, ret |-> None]
    /\ NoteUpdate(key, new_data, now)
    /\ UNCHANGED now
    /\ UNCHANGED serviceVars

CacheCleanup ==
    /\ records' = cleanup_expired(records, now)
    /\ call' = [op |-> "cleanup_expired", key |-> 0, data |-> 0, at |-> now,
                before |-> records, ret |-> None]
    /\ UNCHANGED <<now, written, hit>>
    /\ UNCHANGED serviceVars

\* ------------------------------------------------------------ initial state
NoTables == [orders |-> << >>, delivery |-> << >>, payment |-> << >>, items |-> << >>]
NoReq == [op |-> "none", id |-> 0, body |-> [data |-> 0, items |-> 0]]
NoResp == [status |-> 0, uid |-> 0, order |-> None, error |-> "", cause |-> ""]
NoObs == [reads |-> 0, lookups |-> 0, fresh |-> FALSE, updates |-> 0, insertedAt |-> 0,
          done |-> << >>, rollbacks |-> 0, rollback |-> "none"]
NoReturn == [task |-> 0, req |-> NoReq, uid |-> 0, resp |-> NoResp, obs |-> NoObs]

\* main: Cache::new(), the AppState with both locks free, no request in flight,
\* the sweeper spawned and waiting for the first tick of its interval.
Started ==
    /\ now = 0
    /\ records = << >>
    /\ call = NoCall
    /\ written = << >>
    /\ hit = {}
    /\ dbLock = 0
    /\ cacheLock = 0
    /\ tables = NoTables
    /\ tx = None
    /\ nextId = 1
    /\ pc = [t \in Handlers |-> "idle"]
    /\ req = [t \in Handlers |-> NoReq]
    /\ uid = [t \in Handlers |-> 0]
    /\ obs = [t \in Handlers |-> NoObs]
    /\ returned = NoReturn
    /\ sweeper = "s_wait"
    /\ nextSweep = 0
    /\ failed = << >>
    /\ created = << >>

\* main without --migration (Migration::None): no migration task is spawned.
Init ==
    /\ Started
    /\ migrator = "m_off"

CacheInit == Init

CacheNext ==
    \/ \E d \in TickSteps : Tick(d) /\ UNCHANGED returned
    \/ \E key \in Uuids : CacheGet(key)
    \/ \E key \in Uuids, new_data \in CacheData : CacheUpdate(key, new_data)
    \/ CacheCleanup

CacheSpec == CacheInit /\ [][CacheNext]_vars

\* ======================================================================
\* The order service: routes.rs, main.rs
\* ======================================================================
\* CreateOrderDTO: the header, delivery and payment fields (one value stands
\* for them) and the number of line items.
Bodies == [data : CacheData, items : 0..MaxItems]

\* ------------------------------------------------- the relational client
\* The rows the open transaction has inserted.
Pending == tx[1]

\* One INSERT of the open transaction.
TxInsert(p, table, id, row) == [p EXCEPT ![table] = MapInsert(p[table], id, row)]

\* The tables once the rows `p` of a transaction are made durable.
ApplyRows(tbls, p) ==
    [n \in DOMAIN tbls |->
        [k \in (DOMAIN tbls[n]) \cup (DOMAIN p[n]) |->
            IF k \in DOMAIN p[n] THEN p[n][k] ELSE tbls[n][k]]]

\* The item rows OrderItemsService::create_many inserts: one per line item.
ItemRows(body) == [i \in 1..body.items |-> body.data]

\* create_many builds "INSERT ... VALUES (..),(..)" with one tuple per item; with
\* no item the statement has no tuple after VALUES and the store rejects it.
ItemsStatementAccepted(body) == body.items >= 1

\* GetOrderDTO::from_order / GetOrderDTO::from_row: the aggregate assembled from
\* the header row, the payment, the delivery and the items.
from_order(id, order, payment, delivery, items) ==
    [order_uid |-> id, order |-> order, payment |-> payment,
     delivery |-> delivery, items |-> items]

from_row(id, order, payment, delivery, items) ==
    [order_uid |-> id, order |-> order, payment |-> payment,
     delivery |-> delivery, items |-> items]

\* ------------------------------------------------------------- responses
Created(id) == [status |-> 201, uid |-> id, order |-> None, error |-> "", cause |-> ""]
Ok(order) == [status |-> 200, uid |-> 0, order |-> Some(order), error |-> "", cause |-> ""]
NotFound == [status |-> 404, uid |-> 0, order |-> None, error |-> "Order not found!", cause |-> ""]
ServerError(message, cause) ==
    [status |-> 500, uid |-> 0, order |-> None, error |-> message, cause |-> cause]

\* handle_db_error
handle_db_error(cause) == ServerError("Database error", cause)

\* Handler task t returns response r, having observed o: the response goes out,
\* the guard on the client is dropped and the task is free for another request.
ReturnWith(t, r, o) ==
    /\ returned' = [task |-> t, req |-> req[t], uid |-> uid[t], resp |-> r, obs |-> o]
    /\ pc' = [pc EXCEPT ![t] = "idle"]
    /\ req' = [req EXCEPT ![t] = NoReq]
    /\ uid' = [uid EXCEPT ![t] = 0]
    /\ obs' = [obs EXCEPT ![t] = NoObs]
    /\ dbLock' = 0

\* A step that returns no response.
Quiet == returned' = NoReturn

\* handle_transaction_error(err, transaction, message): one rollback attempt,
\* whose failure is only logged; the failing step's error is the response either
\* way. The transaction of line 29 is moved in and was never committed, so
\* whichever way the rollback ends none of its rows becomes durable.
handle_transaction_error(t, message) ==
    /\ \E rollback \in {"ok", "failed"} :
          /\ tables' = tables
          /\ ReturnWith(t, ServerError(message, "Insert"),
                        [obs[t] EXCEPT !.rollbacks = @ + 1, !.rollback = rollback])
          /\ failed' = IF uid[t] # 0
                       THEN MapInsert(failed, uid[t], [step |-> message, rollback |-> rollback])
                       ELSE failed
    /\ tx' = None
    /\ UNCHANGED <<cacheLock, nextId, created>>
    /\ UNCHANGED cacheVars
    /\ UNCHANGED spawnedVars

\* ------------------------------------------------ create_order_handler
\* The creates that have not been given their order_uid yet.
AwaitingId == {h \in Handlers : pc[h] \in {"c_lock", "c_begin", "c_order"}}

\* POST /api/orders arrives at handler task t.
StartCreate(t, body) ==
    /\ pc[t] = "idle"
    /\ nextId + Cardinality(AwaitingId) <= MaxIds
    /\ pc' = [pc EXCEPT ![t] = "c_lock"]
    /\ req' = [req EXCEPT ![t] = [op |-> "create", id |-> 0, body |-> body]]
    /\ Quiet
    /\ UNCHANGED <<uid, obs>>
    /\ UNCHANGED <<cacheVars, dbVars, spawnedVars, histVars, lockVars>>

\* Mutant: the handler does not wait for the client's mutex (a client shared
\* without the lock).
CreateLockDb_NoWait(t) ==
    /\ pc[t] = "c_lock"
    /\ dbLock' = t
    /\ pc' = [pc EXCEPT ![t] = "c_begin"]
    /\ Quiet
    /\ UNCHANGED <<cacheLock, req, uid, obs>>
    /\ UNCHANGED <<cacheVars, dbVars, spawnedVars, histVars>>

\* line 27: data.db.lock().await
CreateLockDb(t) ==
    /\ pc[t] = "c_lock"
    /\ dbLock = 0
    /\ dbLock' = t
    /\ pc' = [pc EXCEPT ![t] = "c_begin"]
    /\ Quiet
    /\ UNCHANGED <<cacheLock, req, uid, obs>>
    /\ UNCHANGED <<cacheVars, dbVars, spawnedVars, histVars>>

\* lines 29-32: client_db.transaction().await
CreateBegin(t) ==
    /\ pc[t] = "c_begin"
    /\ \/ /\ tx' = Some(NoTables)
          /\ pc' = [pc EXCEPT ![t] = "c_order"]
          /\ Quiet
          /\ UNCHANGED <<dbLock, req, uid, obs>>
       \/ /\ ReturnWith(t, handle_db_error("Begin"), obs[t])
          /\ UNCHANGED tx
    /\ UNCHANGED <<cacheLock, tables, nextId>>
    /\ UNCHANGED <<cacheVars, spawnedVars, histVars>>

\* The insert of a row into `table` under identifier id, noted as done by task t.
InsertObs(t, table, id) ==
    [obs[t] EXCEPT !.done = Append(@, [table |-> table, id |-> id])]

\* An insert step of the transaction succeeded: the row is pending, go on.
StepOk(t, table, id, row, next) ==
    /\ tx' = Some(TxInsert(Pending, table, id, row))
    /\ pc' = [pc EXCEPT ![t] = next]
    /\ obs' = [obs EXCEPT ![t] = InsertObs(t, table, id)]
    /\ Quiet
    /\ UNCHANGED <<dbLock, cacheLock, tables, req>>
    /\ UNCHANGED <<cacheVars, spawnedVars, histVars>>

\* Mutant: the header insert runs on the client, outside the transaction, and
\* is durable at once.
CreateOrder_Autocommit(t) ==
    /\ pc[t] = "c_order"
    /\ \/ /\ tx' = Some(TxInsert(Pending, "orders", nextId, req[t].body.data))
          /\ tables' = ApplyRows(tables, TxInsert(Pending, "orders", nextId, req[t].body.data))
          /\ pc' = [pc EXCEPT ![t] = "c_delivery"]
          /\ uid' = [uid EXCEPT ![t] = nextId]
          /\ nextId' = nextId + 1
          /\ obs' = [obs EXCEPT ![t] = InsertObs(t, "orders", nextId)]
          /\ Quiet
          /\ UNCHANGED <<dbLock, cacheLock, req>>
          /\ UNCHANGED <<cacheVars, spawnedVars, histVars>>
       \/ handle_transaction_error(t, "Create order error")

\* Mutant: the store hands out the same order_uid again (no fresh identifier
\* per header insert).
CreateOrder_ReusesId(t) ==
    /\ pc[t] = "c_order"
    /\ \/ /\ StepOk(t, "orders", nextId, req[t].body.data, "c_delivery")
          /\ uid' = [uid EXCEPT ![t] = nextId]
          /\ nextId' = nextId
       \/ handle_transaction_error(t, "Create order error")

\* lines 35-41: OrderService::create_one, the store generates order_uid
CreateOrder(t) ==
    /\ pc[t] = "c_order"
    /\ \/ /\ StepOk(t, "orders", nextId, req[t].body.data, "c_delivery")
          /\ uid' = [uid EXCEPT ![t] = nextId]
          /\ nextId' = nextId + 1
       \/ handle_transaction_error(t, "Create order error")

\* Mutant: the delivery step reports its failure under the header step's
\* message (as errors::handle_create_delivery_error does).
CreateDelivery_WrongMessage(t) ==
    /\ pc[t] = "c_delivery"
    /\ \/ /\ StepOk(t, "delivery", uid[t], req[t].body.data, "c_payment")
          /\ UNCHANGED <<uid, nextId>>
       \/ handle_transaction_error(t, "Create order error")

\* Mutant: after the delivery insert the handler goes straight to the items
\* insert, before any payment row exists.
CreateDelivery_ItemsNext(t) ==
    /\ pc[t] = "c_delivery"
    /\ \/ /\ StepOk(t, "delivery", uid[t], req[t].body.data, "c_items")
          /\ UNCHANGED <<uid, nextId>>
       \/ handle_transaction_error(t, "Create delivery error")

\* lines 44-54: DeliveryService::create_one
CreateDelivery(t) ==
    /\ pc[t] = "c_delivery"
    /\ \/ /\ StepOk(t, "delivery", uid[t], req[t].body.data, "c_payment")
          /\ UNCHANGED <<uid, nextId>>
       \/ handle_transaction_error(t, "Create delivery error")

\* Mutant: the payment insert runs on the client, outside the transaction, and
\* is durable at once together with what the transaction holds.
CreatePayment_Autocommit(t) ==
    /\ pc[t] = "c_payment"
    /\ \/ /\ tx' = Some(TxInsert(Pending, "payment", uid[t], req[t].body.data))
          /\ tables' = ApplyRows(tables, TxInsert(Pending, "payment", uid[t], req[t].body.data))
          /\ pc' = [pc EXCEPT ![t] = "c_items"]
          /\ obs' = [obs EXCEPT ![t] = InsertObs(t, "payment", uid[t])]
          /\ Quiet
          /\ UNCHANGED <<dbLock, cacheLock, nextId, req, uid>>
          /\ UNCHANGED <<cacheVars, spawnedVars, histVars>>
       \/ handle_transaction_error(t, "Create payment error")

\* lines 57-67: PaymentService::create_one
CreatePayment(t) ==
    /\ pc[t] = "c_payment"
    /\ \/ /\ StepOk(t, "payment", uid[t], req[t].body.data, "c_items")
          /\ UNCHANGED <<uid, nextId>>
       \/ handle_transaction_error(t, "Create payment error")

\* lines 70-78: OrderItemsService::create_many
CreateItems(t) ==
    /\ pc[t] = "c_items"
    /\ \/ /\ ItemsStatementAccepted(req[t].body)
          /\ StepOk(t, "items", uid[t], ItemRows(req[t].body), "c_cache_lock")
          /\ UNCHANGED <<uid, nextId>>
       \/ handle_transaction_error(t, "Create items error")

\* lines 80-85: the aggregate built from the rows the inserts returned
CreatedOrder(t) ==
    from_order(uid[t], Pending.orders[uid[t]], Pending.payment[uid[t]],
               Pending.delivery[uid[t]], Pending.items[uid[t]])

\* lines 87-89: data.cache.lock().await
CreateLockCache(t) ==
    /\ pc[t] = "c_cache_lock"
    /\ cacheLock = 0
    /\ cacheLock' = t
    /\ pc' = [pc EXCEPT ![t] = "c_cache"]
    /\ Quiet
    /\ UNCHANGED <<dbLock, req, uid, obs>>
    /\ UNCHANGED <<cacheVars, dbVars, spawnedVars, histVars>>

\* Mutant: the guard on the cache is bound to a variable and lives on to the
\* end of the handler, over the commit.
CreateUpdateCache_KeepsGuard(t) ==
    /\ pc[t] = "c_cache"
    /\ records' = update_record(records, uid[t], CreatedOrder(t), now)
    /\ obs' = [obs EXCEPT ![t].updates = @ + 1, ![t].insertedAt = now]
    /\ pc' = [pc EXCEPT ![t] = "c_commit"]
    /\ Quiet
    /\ UNCHANGED <<now, call, written, hit, dbLock, cacheLock, req, uid>>
    /\ UNCHANGED <<dbVars, spawnedVars, histVars>>

\* line 90: .update_record(created_order_uuid, order); the guard is dropped
CreateUpdateCache(t) ==
    /\ pc[t] = "c_cache"
    /\ records' = update_record(records, uid[t], CreatedOrder(t), now)
    /\ obs' = [obs EXCEPT ![t].updates = @ + 1, ![t].insertedAt = now]
    /\ cacheLock' = 0
    /\ pc' = [pc EXCEPT ![t] = "c_commit"]
    /\ Quiet
    /\ UNCHANGED <<now, call, written, hit, dbLock, req, uid>>
    /\ UNCHANGED <<dbVars, spawnedVars, histVars>>

\* lines 93-110: transaction.commit().await, then 201 with the order_uid. When
\* the commit call fails the transaction may or may not have been made durable.
CreateCommit(t) ==
    /\ pc[t] = "c_commit"
    /\ \/ /\ tables' = ApplyRows(tables, Pending)
          /\ created' = MapInsert(created, uid[t],
                                  [order |-> CreatedOrder(t), at |-> obs[t].insertedAt])
          /\ ReturnWith(t, Created(uid[t]), obs[t])
       \/ /\ \/ tables' = tables
             \/ tables' = ApplyRows(tables, Pending)
          /\ ReturnWith(t, ServerError("Failed to commit transaction", "Commit"), obs[t])
          /\ UNCHANGED created
    /\ tx' = None
    /\ UNCHANGED <<cacheLock, nextId, failed>>
    /\ UNCHANGED <<cacheVars, spawnedVars>>

\* --------------------------------------------------- get_order_handler
\* handle_get_request_error(err, message): the responses the handler may make
\* of a failed read. A failure of the relational client is answered 500. For a
\* read that found no row the answer is 404 or 500: which of the two is not
\* decided by anything in the handler's callers, so both are kept.
handle_get_request_error(cause, message) ==
    IF cause = "RowCount"
    THEN {NotFound, ServerError(message, cause)}
    ELSE {ServerError(message, cause)}

\* Client::query_one: exactly one row, else an error ("RowCount").
QueryOneFinds(table, id) == id \in DOMAIN tables[table]

\* Client::query: the rows found, none included.
QueryRows(table, id) == IF id \in DOMAIN tables[table] THEN tables[table][id] ELSE << >>

\* Row::is_empty: a row with no columns.
RowIsEmpty(columns) == columns = 0

\* GET /api/orders/:id arrives at handler task t.
StartGet(t, id) ==
    /\ pc[t] = "idle"
    /\ pc' = [pc EXCEPT ![t] = "g_lock"]
    /\ req' = [req EXCEPT ![t] = [op |-> "get", id |-> id, body |-> NoReq.body]]
    /\ Quiet
    /\ UNCHANGED <<uid, obs>>
    /\ UNCHANGED <<cacheVars, dbVars, spawnedVars, histVars, lockVars>>

\* line 119: data.db.lock().await
GetLockDb(t) ==
    /\ pc[t] = "g_lock"
    /\ dbLock = 0
    /\ dbLock' = t
    /\ pc' = [pc EXCEPT ![t] = "g_cache_lock"]
    /\ Quiet
    /\ UNCHANGED <<cacheLock, req, uid, obs>>
    /\ UNCHANGED <<cacheVars, dbVars, spawnedVars, histVars>>

\* line 120: data.cache.lock().await
GetLockCache(t) ==
    /\ pc[t] = "g_cache_lock"
    /\ cacheLock = 0
    /\ cacheLock' = t
    /\ pc' = [pc EXCEPT ![t] = "g_cache"]
    /\ Quiet
    /\ UNCHANGED <<dbLock, req, uid, obs>>
    /\ UNCHANGED <<cacheVars, dbVars, spawnedVars, histVars>>

\* What the lookup of task t's get notes: whether the id is one a successful
\* create returned and less than a ttl has passed since that create's insert.
LookupObs(t) ==
    [obs[t] EXCEPT !.lookups = @ + 1,
                   !.fresh = /\ req[t].id \in DOMAIN created
                             /\ now - created[req[t].id].at < TTL_SECS]

\* Mutant: the hit does not return; the handler goes on to the store.
GetLookup_NoReturnOnHit(t) ==
    /\ pc[t] = "g_cache"
    /\ records' = get_record(records, req[t].id, now).records
    /\ cacheLock' = 0
    /\ pc' = [pc EXCEPT ![t] = "g_order"]
    /\ obs' = [obs EXCEPT ![t] = LookupObs(t)]
    /\ Quiet
    /\ UNCHANGED <<dbLock, req, uid>>
    /\ UNCHANGED <<now, call, written, hit>>
    /\ UNCHANGED <<dbVars, spawnedVars, histVars>>

\* Mutant: on a miss the guard on the cache is not dropped (it is kept in a
\* variable that outlives the request).
GetLookup_KeepsGuardOnMiss(t) ==
    /\ pc[t] = "g_cache"
    /\ records' = get_record(records, req[t].id, now).records
    /\ IF get_record(records, req[t].id, now).ret # None
       THEN /\ ReturnWith(t, Ok(get_record(records, req[t].id, now).ret[1].data), LookupObs(t))
            /\ cacheLock' = 0
       ELSE /\ pc' = [pc EXCEPT ![t] = "g_order"]
            /\ obs' = [obs EXCEPT ![t] = LookupObs(t)]
            /\ Quiet
            /\ UNCHANGED <<dbLock, cacheLock, req, uid>>
    /\ UNCHANGED <<now, call, written, hit>>
    /\ UNCHANGED <<dbVars, spawnedVars, histVars>>

\* lines 120-122: .get_record(id); on Some the cached data is the response, on
\* None the handler goes on to the store. The cache guard is dropped either way.
GetLookup(t) ==
    /\ pc[t] = "g_cache"
    /\ records' = get_record(records, req[t].id, now).records
    /\ cacheLock' = 0
    /\ IF get_record(records, req[t].id, now).ret # None
       THEN ReturnWith(t, Ok(get_record(records, req[t].id, now).ret[1].data), LookupObs(t))
       ELSE /\ pc' = [pc EXCEPT ![t] = "g_order"]
            /\ obs' = [obs EXCEPT ![t] = LookupObs(t)]
            /\ Quiet
            /\ UNCHANGED <<dbLock, req, uid>>
    /\ UNCHANGED <<now, call, written, hit>>
    /\ UNCHANGED <<dbVars, spawnedVars, histVars>>

\* One more store read by task t.
ReadObs(t) == [obs[t] EXCEPT !.reads = @ + 1]

\* One point read of the get handler: the row is found and the handler goes on,
\* or the read fails and handle_get_request_error makes the response.
ReadOne(t, table, message, next) ==
    /\ \/ IF QueryOneFinds(table, req[t].id)
          THEN /\ pc' = [pc EXCEPT ![t] = next]
               /\ obs' = [obs EXCEPT ![t] = ReadObs(t)]
               /\ Quiet
               /\ UNCHANGED <<dbLock, req, uid>>
          ELSE \E r \in handle_get_request_error("RowCount", message) :
                  ReturnWith(t, r, ReadObs(t))
       \/ \E r \in handle_get_request_error("Db", message) :
             ReturnWith(t, r, ReadObs(t))
    /\ UNCHANGED cacheLock
    /\ UNCHANGED <<cacheVars, dbVars, spawnedVars, histVars>>

\* Mutant: a header read that found no row does not end the request; the
\* handler goes on to the payment read.
GetOrder_ReadsOn(t) ==
    /\ pc[t] = "g_order"
    /\ \/ /\ pc' = [pc EXCEPT ![t] = "g_payment"]
          /\ obs' = [obs EXCEPT ![t] = ReadObs(t)]
          /\ Quiet
          /\ UNCHANGED <<dbLock, req, uid>>
       \/ \E r \in handle_get_request_error("Db", "Get order error") :
             ReturnWith(t, r, ReadObs(t))
    /\ UNCHANGED cacheLock
    /\ UNCHANGED <<cacheVars, dbVars, spawnedVars, histVars>>

\* lines 125-136: OrderService::get_one_by_id, then the is_empty test
GetOrder(t) ==
    /\ pc[t] = "g_order"
    /\ IF QueryOneFinds("orders", req[t].id) /\ RowIsEmpty(ORDER_ROW_COLUMNS)
       THEN /\ ReturnWith(t, NotFound, ReadObs(t))
            /\ UNCHANGED cacheLock
            /\ UNCHANGED <<cacheVars, dbVars, spawnedVars, histVars>>
       ELSE ReadOne(t, "orders", "Get order error", "g_payment")

\* lines 139-144: PaymentService::get_one_by_id
GetPayment(t) ==
    /\ pc[t] = "g_payment"
    /\ ReadOne(t, "payment", "Payment query error", "g_delivery")

\* lines 147-152: DeliveryService::get_one_by_id
GetDelivery(t) ==
    /\ pc[t] = "g_delivery"
    /\ ReadOne(t, "delivery", "Delivery query error", "g_items")

\* Mutant: the aggregate read from the store is put into the cache before it
\* is returned (read-through).
GetItems_Repopulate(t) ==
    /\ pc[t] = "g_items"
    /\ \/ /\ ReturnWith(t, Ok(from_row(req[t].id, tables.orders[req[t].id],
                                       tables.payment[req[t].id],
                                       tables.delivery[req[t].id],
                                       QueryRows("items", req[t].id))), ReadObs(t))
          /\ records' = update_record(records, req[t].id,
                                      from_row(req[t].id, tables.orders[req[t].id],
                                               tables.payment[req[t].id],
                                               tables.delivery[req[t].id],
                                               QueryRows("items", req[t].id)), now)
       \/ /\ \E r \in handle_get_request_error("Db", "Order items query error") :
                ReturnWith(t, r, ReadObs(t))
          /\ UNCHANGED records
    /\ UNCHANGED cacheLock
    /\ UNCHANGED <<now, call, written, hit>>
    /\ UNCHANGED <<dbVars, spawnedVars, histVars>>

\* lines 155-172: OrderItemsService::get_many_by_id, then the aggregate is
\* assembled from the four reads and returned
GetItems(t) ==
    /\ pc[t] = "g_items"
    /\ \/ ReturnWith(t, Ok(from_row(req[t].id, tables.orders[req[t].id],
                                    tables.payment[req[t].id],
                                    tables.delivery[req[t].id],
                                    QueryRows("items", req[t].id))), ReadObs(t))
       \/ \E r \in handle_get_request_error("Db", "Order items query error") :
             ReturnWith(t, r, ReadObs(t))
    /\ UNCHANGED cacheLock
    /\ UNCHANGED <<cacheVars, dbVars, spawnedVars, histVars>>

\* ------------------------------------------------ the sweeper, main.rs
\* line 125: interval.tick().await; the first tick completes at once, each
\* later one a period after the one before
SweepTick ==
    /\ sweeper = "s_wait"
    /\ now >= nextSweep
    /\ sweeper' = "s_lock"
    /\ nextSweep' = nextSweep + SWEEP_PERIOD_SECS
    /\ Quiet
    /\ UNCHANGED migrator
    /\ UNCHANGED <<cacheVars, dbVars, taskVars, histVars, lockVars>>

\* Mutant: the sweeper reaches into the cache without waiting for its mutex.
SweepLock_NoWait ==
    /\ sweeper = "s_lock"
    /\ cacheLock' = SweeperTask
    /\ sweeper' = "s_run"
    /\ Quiet
    /\ UNCHANGED <<dbLock, nextSweep, migrator>>
    /\ UNCHANGED <<cacheVars, dbVars, taskVars, histVars>>

\* line 126: cache_clone.lock().await
SweepLock ==
    /\ sweeper = "s_lock"
    /\ cacheLock = 0
    /\ cacheLock' = SweeperTask
    /\ sweeper' = "s_run"
    /\ Quiet
    /\ UNCHANGED <<dbLock, nextSweep, migrator>>
    /\ UNCHANGED <<cacheVars, dbVars, taskVars, histVars>>

\* Mutant: the task sweeps once and ends (no loop around tick and sweep).
SweepRun_Once ==
    /\ sweeper = "s_run"
    /\ records' = cleanup_expired(records, now)
    /\ cacheLock' = 0
    /\ sweeper' = "s_done"
    /\ Quiet
    /\ UNCHANGED <<now, call, written, hit, dbLock, nextSweep, migrator>>
    /\ UNCHANGED <<dbVars, taskVars, histVars>>

\* Mutant: the guard on the cache is taken once and kept over the wait for
\* the next tick.
SweepRun_KeepsGuard ==
    /\ sweeper = "s_run"
    /\ records' = cleanup_expired(records, now)
    /\ sweeper' = "s_wait"
    /\ Quiet
    /\ UNCHANGED <<now, call, written, hit, dbLock, cacheLock, nextSweep, migrator>>
    /\ UNCHANGED <<dbVars, taskVars, histVars>>

\* line 126: .cleanup_expired(); the guard is dropped
SweepRun ==
    /\ sweeper = "s_run"
    /\ records' = cleanup_expired(records, now)
    /\ cacheLock' = 0
    /\ sweeper' = "s_wait"
    /\ Quiet
    /\ UNCHANGED <<now, call, written, hit, dbLock, nextSweep, migrator>>
    /\ UNCHANGED <<dbVars, taskVars, histVars>>

\* The clock of the running service.
ClockTick(d) ==
    /\ Tick(d)
    /\ Quiet

Next ==
    \/ \E d \in TickSteps : ClockTick(d)
    \/ \E t \in Handlers, body \in Bodies : StartCreate(t, body)
    \/ \E t \in Handlers : CreateLockDb(t)
    \/ \E t \in Handlers : CreateBegin(t)
    \/ \E t \in Handlers : CreateOrder(t)
    \/ \E t \in Handlers : CreateDelivery(t)
    \/ \E t \in Handlers : CreatePayment(t)
    \/ \E t \in Handlers : CreateItems(t)
    \/ \E t \in Handlers : CreateLockCache(t)
    \/ \E t \in Handlers : CreateUpdateCache(t)
    \/ \E t \in Handlers : CreateCommit(t)
    \/ \E t \in Handlers, id \in Uuids : StartGet(t, id)
    \/ \E t \in Handlers : GetLockDb(t)
    \/ \E t \in Handlers : GetLockCache(t)
    \/ \E t \in Handlers : GetLookup(t)
    \/ \E t \in Handlers : GetOrder(t)
    \/ \E t \in Handlers : GetPayment(t)
    \/ \E t \in Handlers : GetDelivery(t)
    \/ \E t \in Handlers : GetItems(t)
    \/ SweepTick
    \/ SweepLock
    \/ SweepRun

Spec == Init /\ [][Next]_vars

\* ------------------------------------------------------- fair scheduling
\* The steps of handler task t that wait for nothing but the runtime and the
\* store: once reached they are carried out.
HandlerStep(t) ==
    \/ CreateBegin(t) \/ CreateOrder(t) \/ CreateDelivery(t) \/ CreatePayment(t)
    \/ CreateItems(t) \/ CreateUpdateCache(t) \/ CreateCommit(t)
    \/ GetLookup(t) \/ GetOrder(t) \/ GetPayment(t) \/ GetDelivery(t) \/ GetItems(t)

\* The steps of handler task t that take a lock.
LockStep(t) ==
    \/ CreateLockDb(t) \/ GetLockDb(t) \/ CreateLockCache(t) \/ GetLockCache(t)

\* The tokio runtime polls every task that can go on, the store answers every
\* operation, and tokio's Mutex hands the lock to its waiters in the order in
\* which they asked: a task that waits for a lock which is released again and
\* again gets it. Requests need not arrive and the clock need not advance.
Fairness ==
    /\ \A t \in Handlers : WF_vars(HandlerStep(t)) /\ SF_vars(LockStep(t))
    /\ SF_vars(SweepLock)
    /\ WF_vars(SweepRun)

\* The clock of the fairly scheduled service advances in one step past a ttl,
\* so that entries written before it expire and gets go on to the store.
FairTick == ClockTick(TTL_SECS + 1)

\* The steps of the fairly scheduled service: the clock advances, requests
\* arrive, the handlers and the sweeper take their steps. Locks and the order
\* of steps do not depend on the time that passes between them.
FairNext ==
    \/ FairTick
    \/ \E t \in Handlers, body \in Bodies : StartCreate(t, body)
    \/ \E t \in Handlers, id \in Uuids : StartGet(t, id)
    \/ \E t \in Handlers : HandlerStep(t)
    \/ \E t \in Handlers : LockStep(t)
    \/ SweepTick
    \/ SweepLock
    \/ SweepRun

FairSpec == Init /\ [][FairNext]_vars /\ Fairness

\* ------------------------------------------- the migration task, migrate.rs
\* lines 41-52: the script of the migration is read from its file; when the
\* file cannot be read the task ends with the error, before it asks for the
\* client.
MigrateLoad ==
    /\ migrator = "m_load"
    /\ \/ migrator' = "m_lock"
       \/ migrator' = "m_off"
    /\ Quiet
    /\ UNCHANGED <<dbLock, cacheLock, sweeper, nextSweep>>
    /\ UNCHANGED <<cacheVars, dbVars, taskVars, histVars>>

\* line 54: app_state.db.lock().await
MigrateLock ==
    /\ migrator = "m_lock"
    /\ dbLock = 0
    /\ dbLock' = MigrationTask
    /\ migrator' = "m_run"
    /\ Quiet
    /\ UNCHANGED <<cacheLock, sweeper, nextSweep>>
    /\ UNCHANGED <<cacheVars, dbVars, taskVars, histVars>>

\* lines 55-64: the statements of the script are executed one after another
\* on the client until the last one is done or one fails; then the guard is
\* dropped and the task ends. The statements define the schema; the rows of the
\* four tables are taken to be left as they are.
MigrateRun ==
    /\ migrator = "m_run"
    /\ tables' = tables
    /\ dbLock' = 0
    /\ migrator' = "m_off"
    /\ Quiet
    /\ UNCHANGED <<cacheLock, tx, nextId, sweeper, nextSweep>>
    /\ UNCHANGED <<cacheVars, taskVars, histVars>>

\* main with --migration up or down: the migration task is spawned before the
\* server accepts requests and has yet to read its script.
MigInit ==
    /\ Started
    /\ migrator = "m_load"

MigNext ==
    \/ Next
    \/ MigrateLoad
    \/ MigrateLock
    \/ MigrateRun

MigSpec == MigInit /\ [][MigNext]_vars

\* ------------------------------------ the sweeper over its period, main.rs
\* The time up to which the clock is followed: one period of the sweeper's
\* interval and one ttl.
SweepHorizon == SWEEP_PERIOD_SECS + TTL_SECS
\* The clock advances by one ttl, or by the rest of a period after one ttl.
LongSteps == {TTL_SECS, SWEEP_PERIOD_SECS - TTL_SECS}
\* The last tick of the sweeper's interval within the horizon.
LastSweepTick == (SweepHorizon \div SWEEP_PERIOD_SECS) * SWEEP_PERIOD_SECS

LongTick(d) ==
    /\ now + d <= SweepHorizon
    /\ now' = now + d
    /\ UNCHANGED <<records, call, written, hit>>
    /\ UNCHANGED serviceVars

\* A caller takes the cache lock, calls update_record and drops the guard.
LockedUpdate(key, new_data) ==
    /\ cacheLock = 0
    /\ records' = update_record(records, key, new_data, now)
    /\ written' = MapInsert(written, key, [data |-> new_data, at |-> now])
    /\ UNCHANGED <<now, call, hit>>
    /\ UNCHANGED serviceVars

\* A caller takes the cache lock, calls get_record and drops the guard.
LockedGet(key) ==
    /\ cacheLock = 0
    /\ records' = get_record(records, key, now).records
    /\ UNCHANGED <<now, call, written, hit>>
    /\ UNCHANGED serviceVars

SweepNext ==
    \/ \E d \in LongSteps : LongTick(d)
    \/ \E key \in Uuids, new_data \in CacheData : LockedUpdate(key, new_data)
    \/ \E key \in Uuids : LockedGet(key)
    \/ SweepTick
    \/ SweepLock
    \/ SweepRun

\* Time passes, the interval fires when its time has come, the sweeper gets
\* the lock it waits for and runs. Callers of the cache need not come.
SweepFairness ==
    /\ WF_vars(\E d \in LongSteps : LongTick(d))
    /\ WF_vars(SweepTick)
    /\ SF_vars(SweepLock)
    /\ WF_vars(SweepRun)

SweepSpec == Init /\ [][SweepNext]_vars /\ SweepFairness

\* ======================================================================
\* Properties of the cache called directly (specification CacheSpec)
\* ======================================================================
\* The age the specification speaks of: now - lastAccessed.
Age(rec, t) == t - rec.last_accessed

IsGet == call.op = "get_record"
IsUpdate == call.op = "update_record"
IsCleanup == call.op = "cleanup_expired"
\* The entry the last get_record found under its key, if any.
HadEntry == call.key \in DOMAIN call.before
Found == call.before[call.key]

\* C5 (as claimed): a lookup of a key whose entry has now - lastAccessed >= ttl,
\* the boundary now - lastAccessed = ttl included, returns absent and removes the
\* entry, so that a sweep at the same time changes nothing for the key; and no
\* lookup returns an entry whose age is >= ttl.
C5_ExpiredLookupAbsent ==
    IsGet =>
        /\ (HadEntry /\ Age(Found, call.at) >= Found.time_to_live) =>
              /\ call.ret = None
              /\ call.key \notin DOMAIN records
              /\ cleanup_expired(records, call.at) = records
        /\ call.ret # None => Age(call.ret[1], call.at) < call.ret[1].time_to_live

\* C6 (as claimed): lookup treats an entry as expired (absent, removed) exactly
\* when a sweep run at the same time on the same map would remove it.
C6_LazyActiveAgree ==
    (IsGet /\ HadEntry) =>
        ((call.ret = None /\ call.key \notin DOMAIN records)
            <=> (call.key \notin DOMAIN cleanup_expired(call.before, call.at)))

\* C7: a lookup of k made less than ttl after the last insert(k, v) returns a
\* copy of v.
C7_FreshLookupReturnsValue ==
    (IsGet /\ call.key \in DOMAIN written
           /\ call.at - written[call.key].at < TTL_SECS) =>
        /\ call.ret # None
        /\ call.ret[1].data = written[call.key].data

\* C7 witness: a value overwritten by another one is looked up half a ttl later.
C7_Witness ==
    /\ IsGet /\ call.ret # None
    /\ call.at - written[call.key].at = TTL_SECS \div 2
    /\ call.ret[1].data = NumData
    /\ \E k \in DOMAIN records : k # call.key

\* C8: a lookup that hits leaves the whole entry map unchanged (lastAccessed and
\* ttl included), and whatever hits happened since the insert at t0, every
\* lookup after t0 + ttl is a miss.
C8_NoTtlExtensionOnRead ==
    IsGet =>
        /\ call.ret # None => records = call.before
        /\ (call.key \in DOMAIN written /\ call.at > written[call.key].at + TTL_SECS) =>
              call.ret = None

\* C8 witness: insert at t0, a hit at t0 + ttl/2, then a lookup at t0 + ttl + 1
\* that finds the entry still stored and misses.
C8_Witness ==
    /\ IsGet /\ HadEntry /\ call.ret = None
    /\ call.key \in hit
    /\ call.at = written[call.key].at + TTL_SECS + 1

\* C9: insert(key, value) creates or overwrites the entry of key, whatever was
\* there, with the value, lastAccessed = now and ttl = 60 s, and leaves every
\* other key's entry as it was.
C9_InsertOverwrites ==
    IsUpdate =>
        /\ DOMAIN records = DOMAIN call.before \cup {call.key}
        /\ records[call.key] =
              [data |-> call.data, time_to_live |-> 60, last_accessed |-> call.at]
        /\ \A k \in DOMAIN call.before : k # call.key => records[k] = call.before[k]

\* C9 witness: an expired entry with another value is overwritten while another
\* key holds an entry.
C9_Witness ==
    /\ IsUpdate /\ HadEntry
    /\ Age(Found, call.at) > Found.time_to_live
    /\ Found.data # call.data
    /\ \E k \in DOMAIN call.before : k # call.key

\* C9 witness, second case: a live entry is overwritten.
C9_WitnessLive ==
    /\ IsUpdate /\ HadEntry
    /\ Age(Found, call.at) < Found.time_to_live
    /\ Found.last_accessed # call.at
    /\ Found.data # call.data

\* C10: sweep removes every entry with now - lastAccessed >= ttl, keeps every
\* entry with now - lastAccessed < ttl exactly as it was, adds nothing, and
\* leaves no expired entry in the map.
C10_SweepRemovesExactlyExpired ==
    IsCleanup =>
        /\ DOMAIN records \subseteq DOMAIN call.before
        /\ \A k \in DOMAIN call.before :
              IF Age(call.before[k], call.at) >= call.before[k].time_to_live
              THEN k \notin DOMAIN records
              ELSE k \in DOMAIN records /\ records[k] = call.before[k]
        /\ \A k \in DOMAIN records :
              Age(records[k], call.at) < records[k].time_to_live

\* C10 witness: a sweep that finds one entry exactly at its deadline and one
\* live entry.
C10_Witness ==
    /\ IsCleanup
    /\ \E k1, k2 \in DOMAIN call.before :
          /\ Age(call.before[k1], call.at) = call.before[k1].time_to_live
          /\ Age(call.before[k2], call.at) < call.before[k2].time_to_live
          /\ k1 \notin DOMAIN records
          /\ k2 \in DOMAIN records

\* ======================================================================
\* Properties of the running service (specification Spec)
\* ======================================================================
Tables == {"orders", "delivery", "payment", "items"}
HasRow(table, id) == id \in DOMAIN tables[table]
\* No row of the aggregate in any table.
NoRows(id) == \A n \in Tables : ~HasRow(n, id)
\* All four parts of the aggregate are durable.
Committed(id) == \A n \in Tables : HasRow(n, id)

ReturnedCreate == returned.req.op = "create"
ReturnedGet == returned.req.op = "get"
\* The create that returns in this step failed at one of its insert steps.
InsertFailed == ReturnedCreate /\ returned.resp.cause = "Insert"

\* C1 (as claimed): whenever the cache holds an entry for an id, the aggregate
\* id is committed in the store; and a create that returns an error, a failed
\* commit included, has not written to the cache.
C1_CachePopulatedOnlyBySuccess ==
    /\ \A id \in DOMAIN records : Committed(id)
    /\ (ReturnedCreate /\ returned.resp.status # 201) => returned.obs.updates = 0

\* C2 (as claimed): when an insert step of a create fails, no row of that
\* aggregate exists in any table afterwards, and a get of that id that reads
\* the store without a failure of the relational client is answered NotFound.
C2_CreateAtomic ==
    /\ \A id \in DOMAIN failed : NoRows(id)
    /\ (ReturnedGet /\ returned.req.id \in DOMAIN failed /\ returned.resp.cause # "Db") =>
          returned.resp = NotFound

\* C2, the part the handlers of routes.rs decide: after a failed insert step,
\* under either outcome of the rollback, no row of the aggregate exists, and a
\* get of that id is not answered 200 and reads the header only.
C2_NoRowsAfterFailedStep ==
    /\ \A id \in DOMAIN failed : NoRows(id)
    /\ (ReturnedGet /\ returned.req.id \in DOMAIN failed) =>
          /\ returned.resp.status # 200
          /\ returned.obs.reads = 1

\* C2 witness: a create failed at its items insert, after header, delivery and
\* payment were inserted, and its rollback failed; a get of its id has read the
\* header and found no row.
C2_Witness ==
    /\ ReturnedGet
    /\ returned.req.id \in DOMAIN failed
    /\ failed[returned.req.id].step = "Create items error"
    /\ failed[returned.req.id].rollback = "failed"
    /\ returned.obs.reads = 1
    /\ returned.resp.cause = "RowCount" \/ returned.resp = NotFound

\* C3: in every state, while creates are in flight and gets wait or read, the
\* durable tables hold, for each id, all four parts of the aggregate or none.
C3_AggregateWhole ==
    \A id \in Uuids : Committed(id) \/ NoRows(id)

\* C3 witness: one aggregate is committed, the create of another is in flight
\* with its header and delivery inserted and no payment or items yet, and a get
\* is waiting for the client.
C3_Witness ==
    /\ \E id \in Uuids : Committed(id)
    /\ tx # None
    /\ \E id \in DOMAIN Pending.delivery : id \notin DOMAIN Pending.payment /\ NoRows(id)
    /\ \E t \in Handlers : pc[t] = "g_lock"

\* C4: a get of an id a successful create returned, whose cache lookup comes
\* less than a ttl after that create's cache insert, returns exactly the
\* aggregate the create assembled and reads nothing from the store.
C4_CreateThenGetHitsCache ==
    (ReturnedGet /\ returned.obs.fresh) =>
        /\ returned.resp = Ok(created[returned.req.id].order)
        /\ returned.obs.reads = 0

\* C4 witness: such a get, answered from the cache some time after the create.
C4_Witness ==
    /\ ReturnedGet /\ returned.obs.fresh
    /\ returned.resp.status = 200
    /\ returned.obs.reads = 0
    /\ now > created[returned.req.id].at

\* C11 (as claimed): a get of an id with no header row in the store and no
\* live cache entry makes the header read and nothing else and returns NotFound,
\* unless the header read itself failed in the relational client.
C11_MissingHeaderNotFound ==
    (ReturnedGet /\ ~HasRow("orders", returned.req.id) /\ returned.obs.reads > 0
        /\ returned.resp.cause # "Db") =>
        /\ returned.obs.reads = 1
        /\ returned.resp = NotFound

\* C11, the part get_order_handler decides: such a get ends after the header
\* read, with the response handle_get_request_error makes, never a 200.
C11_MissingHeaderEndsGet ==
    (ReturnedGet /\ ~HasRow("orders", returned.req.id) /\ returned.obs.reads > 0) =>
        /\ returned.obs.reads = 1
        /\ returned.resp.status # 200

\* C11 witness: while another aggregate is committed, a get of an id no create
\* was ever given misses the cache, reads the header and finds no row.
C11_Witness ==
    /\ ReturnedGet
    /\ returned.req.id >= nextId
    /\ \E id \in Uuids : Committed(id)
    /\ returned.obs.lookups = 1
    /\ returned.obs.reads = 1
    /\ returned.resp.cause = "RowCount" \/ returned.resp = NotFound

\* The messages of the four insert steps, in the order of the handler.
StepMessages == <<"Create order error", "Create delivery error",
                  "Create payment error", "Create items error">>

\* C12: a create that fails at an insert step returns that step's error, having
\* done exactly the inserts before it and none after it, and having attempted
\* one rollback, whether that rollback succeeded or failed; a handler that is
\* still running has attempted no rollback.
C12_FailedStepEndsCreate ==
    /\ InsertFailed =>
          /\ Len(returned.obs.done) < Len(StepMessages)
          /\ returned.resp = ServerError(StepMessages[Len(returned.obs.done) + 1], "Insert")
          /\ returned.obs.rollbacks = 1
          /\ returned.obs.rollback \in {"ok", "failed"}
    /\ \A t \in Handlers : obs[t].rollbacks = 0

\* C12 witness: the payment insert fails after header and delivery were
\* inserted, and the rollback fails too.
C12_Witness ==
    /\ InsertFailed
    /\ Len(returned.obs.done) = 2
    /\ returned.resp.error = "Create payment error"
    /\ returned.obs.rollback = "failed"

\* The positions of a task inside get_order_handler.
GetPcs == {"g_lock", "g_cache_lock", "g_cache", "g_order", "g_payment", "g_delivery", "g_items"}
\* Task t takes a step of its get.
GetStep(t) == pc[t] \in GetPcs /\ pc'[t] # pc[t]

\* C13: when a get that read from the store returns, the cache holds no entry
\* for its id; and a step of a get leaves the entry map as it is or removes
\* from it the entry of the requested id, whose age has reached its ttl.
C13_GetDoesNotPopulate ==
    /\ [](ReturnedGet /\ returned.obs.reads >= 1 => returned.req.id \notin DOMAIN records)
    /\ [][\A t \in Handlers : GetStep(t) =>
              \/ records' = records
              \/ /\ req[t].id \in DOMAIN records
                 /\ Age(records[req[t].id], now) >= records[req[t].id].time_to_live
                 /\ records' = MapRemove(records, req[t].id)]_vars

\* C13 witness: a get of an aggregate that a create had cached has read all
\* four parts from the store and returns 200; the cache, which still holds
\* another entry, has none for the id.
C13_Witness ==
    /\ ReturnedGet
    /\ returned.resp.status = 200
    /\ returned.obs.reads = 4
    /\ returned.req.id \in DOMAIN created
    /\ returned.req.id \notin DOMAIN records
    /\ records # << >>

\* The tasks that hold the guard on the cache and are about to run their one
\* operation on the entry map.
UsingCache ==
    {t \in Handlers : pc[t] \in {"c_cache", "g_cache"}}
        \cup (IF sweeper = "s_run" THEN {SweeperTask} ELSE {})

\* The entry map after the one operation of the task h that holds the guard.
OperationOf(h) ==
    IF h = SweeperTask THEN cleanup_expired(records, now)
    ELSE IF req[h].op = "create" THEN update_record(records, uid[h], CreatedOrder(h), now)
    ELSE get_record(records, req[h].id, now).records

\* C15: at most one task is inside a cache operation, the holder of the cache
\* lock; the entry map changes only in the step in which the holder runs its
\* whole operation and lets go, never while the lock stays held or is free; and
\* a lookup answered from the cache returns what get_record yields on the map
\* the operation before it left. The operations thus take effect one at a time,
\* in the order in which the lock is handed on.
C15_CacheOperationsAtomic ==
    /\ [](/\ Cardinality(UsingCache) <= 1
          /\ UsingCache = (IF cacheLock = 0 THEN {} ELSE {cacheLock}))
    /\ [][records' # records =>
              /\ cacheLock # 0
              /\ cacheLock' = 0
              /\ records' = OperationOf(cacheLock)]_vars
    /\ [][(cacheLock # 0 /\ cacheLock' # 0) => cacheLock' = cacheLock]_vars
    /\ [][(returned'.req.op = "get" /\ returned'.obs.reads = 0) =>
              /\ cacheLock = returned'.task
              /\ get_record(records, returned'.req.id, now).ret # None
              /\ returned'.resp = Ok(get_record(records, returned'.req.id, now).ret[1].data)]_vars

\* C15 witness: a handler holds the cache lock for the lookup of an entry whose
\* ttl has passed while the sweeper, which would remove the same entry, waits
\* for the lock.
C15_Witness ==
    /\ sweeper = "s_lock"
    /\ \E t \in Handlers :
          /\ pc[t] = "g_cache"
          /\ cacheLock = t
          /\ req[t].id \in DOMAIN records
          /\ ~CleanupKeeps(records[req[t].id], now)

\* C15 witness, second case: the sweeper holds the lock over a map with an
\* entry while a create waits to insert.
C15_WitnessSweep ==
    /\ sweeper = "s_run"
    /\ cacheLock = SweeperTask
    /\ records # << >>
    /\ \E t \in Handlers : pc[t] = "c_cache_lock"

\* The tables of the four insert steps, in the order of the handler.
InsertOrder == <<"orders", "delivery", "payment", "items">>

\* The inserts `done` are the first ones of the handler's order, all under id.
InOrderUnder(done, id) ==
    /\ Len(done) <= Len(InsertOrder)
    /\ \A i \in 1..Len(done) : done[i].table = InsertOrder[i] /\ done[i].id = id

\* C16: the inserts a create has done are always the first ones of header,
\* delivery, payment, items in that order, none done twice or ahead of its
\* turn; delivery, payment and items are inserted under the id the header
\* insert returned; the open transaction holds exactly the rows of the steps
\* done; and a create is at its commit, or returns from it, only with all four
\* inserts done.
C16_InsertsInOrder ==
    /\ \A t \in Handlers :
          /\ InOrderUnder(obs[t].done, uid[t])
          /\ obs[t].done # << >> =>
                /\ uid[t] # 0
                /\ tx # None
                /\ \A i \in 1..Len(InsertOrder) :
                      (uid[t] \in DOMAIN Pending[InsertOrder[i]]) <=> (i <= Len(obs[t].done))
          /\ pc[t] \in {"c_cache_lock", "c_cache", "c_commit"} =>
                Len(obs[t].done) = Len(InsertOrder)
    /\ (ReturnedCreate /\ (returned.resp.status = 201 \/ returned.resp.cause = "Commit")) =>
          /\ Len(returned.obs.done) = Len(InsertOrder)
          /\ InOrderUnder(returned.obs.done, returned.uid)

\* C16 witness: a create has inserted header, delivery and payment under the
\* second id the store gave out and is about to insert its items.
C16_Witness ==
    \E t \in Handlers :
        /\ pc[t] = "c_items"
        /\ uid[t] = MaxIds
        /\ Len(obs[t].done) = 3
        /\ obs[t].done[3] = [table |-> "payment", id |-> MaxIds]

\* C16 witness, second case: a create returns 201 after its commit.
C16_WitnessCommitted ==
    /\ ReturnedCreate
    /\ returned.resp.status = 201
    /\ Len(returned.obs.done) = 4

\* C17 (as claimed): a create with no items can pass its items step and go on
\* to commit header, delivery and payment with zero item rows: whenever such a
\* create stands at its items insert, the step that inserts and goes on is
\* possible.
C17_EmptyItemsCreateSucceeds ==
    \A t \in Handlers :
        (pc[t] = "c_items" /\ req[t].body.items = 0) =>
            ENABLED (CreateItems(t) /\ pc'[t] = "c_cache_lock")

\* The cache holds an entry for id that a lookup made now would return.
LiveHit(id) == id \in DOMAIN records /\ ~GetExpired(records[id], now)

\* C18 (as claimed): a get whose id is a live cache hit has made no store read
\* and neither holds the guard on the relational client nor waits for it while
\* another task has it.
C18_HitBypassesClient ==
    \A t \in Handlers :
        (req[t].op = "get" /\ LiveHit(req[t].id)) =>
            /\ obs[t].reads = 0
            /\ dbLock # t
            /\ ~(pc[t] = "g_lock" /\ dbLock # 0)

\* The positions at which a handler's next step is an operation on the
\* relational client: begin, an insert (with its rollback), a select, the commit.
ClientOpPcs == {"c_begin", "c_order", "c_delivery", "c_payment", "c_items", "c_commit",
                "g_order", "g_payment", "g_delivery", "g_items"}

\* C19: a handler holds the cache lock only where its next step is its one map
\* operation, the sweeper only where it sweeps; no handler holds it at, or
\* takes with it, a step that is an operation on the relational client.
C19_NoClientOperationUnderCacheLock ==
    /\ [](/\ \A t \in Handlers :
                /\ cacheLock = t => pc[t] \in {"c_cache", "g_cache"}
                /\ pc[t] \in ClientOpPcs => cacheLock # t
          /\ cacheLock = SweeperTask => sweeper = "s_run"
          /\ cacheLock \in {0, SweeperTask} \cup Handlers)
    /\ [][\A t \in Handlers :
              (pc[t] \in ClientOpPcs /\ pc'[t] # pc[t]) =>
                  (cacheLock # t /\ cacheLock' # t)]_vars

\* C19 witness: a create holds the cache lock for its insert into the map, its
\* four inserts done and its transaction still open, while the sweeper waits
\* for the lock.
C19_Witness ==
    /\ sweeper = "s_lock"
    /\ tx # None
    /\ \E t \in Handlers :
          /\ pc[t] = "c_cache"
          /\ cacheLock = t
          /\ Len(obs[t].done) = 4

\* ======================================================================
\* Properties of the fairly scheduled service (specification FairSpec)
\* ======================================================================
\* Every task that can hold or wait for a lock.
Tasks == Handlers \cup {SweeperTask, MigrationTask}

\* The task that holds the lock task t is waiting for; 0 when t waits for no
\* lock or the lock is free.
WaitsFor(t) ==
    IF t \in Handlers /\ pc[t] \in {"c_lock", "g_lock"} THEN dbLock
    ELSE IF t \in Handlers /\ pc[t] \in {"c_cache_lock", "g_cache_lock"} THEN cacheLock
    ELSE IF t = SweeperTask /\ sweeper = "s_lock" THEN cacheLock
    ELSE IF t = MigrationTask /\ migrator = "m_lock" THEN dbLock
    ELSE 0

\* The tasks reached from t along at most n waits.
RECURSIVE WaitChain(_, _)
WaitChain(t, n) ==
    IF n = 0 \/ WaitsFor(t) = 0
    THEN {}
    ELSE {WaitsFor(t)} \cup WaitChain(WaitsFor(t), n - 1)

\* C20: no task waits, directly or through others, for a lock held by itself
\* (no cycle of waits over the client lock and the cache lock); and under fair
\* scheduling every handler that has started returns and every sweep that has
\* begun completes: each handler task is idle again and again, and the sweeper
\* is back at its interval again and again.
C20_NoDeadlockAllReturn ==
    /\ [](\A t \in Tasks : t \notin WaitChain(t, Cardinality(Tasks)))
    /\ \A t \in Handlers : []<>(pc[t] = "idle")
    /\ []<>(sweeper = "s_wait")

\* C20 witness: one handler holds the client lock and waits for the cache lock,
\* which the sweeper holds, while the other handler waits for the client lock.
C20_Witness ==
    /\ cacheLock = SweeperTask
    /\ \E t, u \in Handlers :
          /\ dbLock = t
          /\ pc[t] \in {"c_cache_lock", "g_cache_lock"}
          /\ pc[u] \in {"c_lock", "g_lock"}
          /\ WaitChain(u, Cardinality(Tasks)) = {t, SweeperTask}

\* C22 (as claimed): no create or get handler is ever waiting for a lock that
\* the sweeper holds.
C22_SweeperNeverBlocks ==
    \A t \in Handlers : WaitsFor(t) # SweeperTask

\* C22 (amended): a handler waits for the sweeper only at the cache lock and
\* only while the sweeper is inside its one cleanup_expired call, which it can
\* always run and after which it has let go of the lock; the sweeper never
\* holds the client lock, and never holds the cache lock while it waits for
\* its interval or for the lock.
C22_SweeperBlocksOnlyForOneSweep ==
    /\ [](/\ dbLock # SweeperTask
          /\ cacheLock = SweeperTask => (sweeper = "s_run" /\ ENABLED SweepRun)
          /\ \A t \in Handlers :
                WaitsFor(t) = SweeperTask =>
                    (pc[t] \in {"c_cache_lock", "g_cache_lock"} /\ sweeper = "s_run"))
    /\ [][(cacheLock = SweeperTask /\ sweeper' # sweeper) => cacheLock' = 0]_vars

\* C22 witness: a get that holds the client waits for the cache lock while the
\* sweeper, holding it, is about to remove the very entry the get asks for.
C22_Witness ==
    /\ cacheLock = SweeperTask
    /\ sweeper = "s_run"
    /\ \E t \in Handlers :
          /\ pc[t] = "g_cache_lock"
          /\ dbLock = t
          /\ req[t].id \in DOMAIN records
          /\ ~CleanupKeeps(records[req[t].id], now)

\* ---------------------------------------------------------------- C23
\* The outcomes the store read path of get_order_handler can have for id in
\* the current state. Each of the four reads may fail in the relational client;
\* the header, payment and delivery reads each need their row; with all four
\* read the aggregate is assembled.
StoreOutcomes(id) ==
    handle_get_request_error("Db", "Get order error") \cup
    (IF QueryOneFinds("orders", id) /\ RowIsEmpty(ORDER_ROW_COLUMNS)
     THEN {NotFound}
     ELSE IF ~QueryOneFinds("orders", id)
     THEN handle_get_request_error("RowCount", "Get order error")
     ELSE
        handle_get_request_error("Db", "Payment query error") \cup
        (IF ~QueryOneFinds("payment", id)
         THEN handle_get_request_error("RowCount", "Payment query error")
         ELSE
            handle_get_request_error("Db", "Delivery query error") \cup
            (IF ~QueryOneFinds("delivery", id)
             THEN handle_get_request_error("RowCount", "Delivery query error")
             ELSE
                handle_get_request_error("Db", "Order items query error") \cup
                {Ok(from_row(id, tables.orders[id], tables.payment[id],
                             tables.delivery[id], QueryRows("items", id)))})))

\* A get answered from the cache: 200 with no read of the store.
AnsweredFromCache ==
    ReturnedGet /\ returned.resp.status = 200 /\ returned.obs.reads = 0

\* C23 (as claimed): a get answered from the cache returns what the store read
\* path returns for that id in the same state: the same aggregate, and never a
\* 200 for an id the store reports as not found.
C23_CacheTransparent ==
    AnsweredFromCache => returned.resp \in StoreOutcomes(returned.req.id)

\* ---------------------------------------------------------------- C24
\* The create of task t has been given its order_uid by the header insert.
HoldsId(t) == req[t].op = "create" /\ uid[t] # 0

\* The create of task t has made its cache insert (line 90).
WroteCache(t) == pc[t] = "c_commit"

\* C24: every cache entry under key k holds an aggregate whose order_uid is k,
\* and k is an identifier the store has given out. The key a create uses is the
\* identifier its own header insert returned, the newest one given out; no other
\* create in flight holds it, no finished create had it, and the cache has no
\* entry under it until this create writes one: no two creates write one key.
C24_CacheKeyConsistent ==
    /\ \A k \in DOMAIN records :
          /\ records[k].data.order_uid = k
          /\ k \in 1..(nextId - 1)
    /\ \A t \in Handlers : HoldsId(t) =>
          /\ obs[t].done[1] = [table |-> "orders", id |-> uid[t]]
          /\ uid[t] = nextId - 1
          /\ \A o \in Handlers \ {t} : uid[o] # uid[t]
          /\ uid[t] \notin (DOMAIN created) \cup (DOMAIN failed)
          /\ ~WroteCache(t) => uid[t] \notin DOMAIN records
    /\ \A t \in Handlers : WroteCache(t) =>
          /\ HoldsId(t)
          /\ obs[t].updates = 1
          /\ uid[t] \in DOMAIN records => records[uid[t]].data = CreatedOrder(t)

\* C24 witness: two creates have each written the cache, under the two
\* different identifiers their header inserts returned, with different bodies.
C24_Witness ==
    /\ DOMAIN records = {1, 2}
    /\ DOMAIN created = {1, 2}
    /\ records[1].data.order_uid = 1 /\ records[2].data.order_uid = 2
    /\ records[1].data.order # records[2].data.order

\* ======================================================================
\* Properties of the service started with a migration (specification MigSpec)
\* ======================================================================
\* The positions at which a handler holds the guard on the relational client.
ClientPcs == {"c_begin", "c_order", "c_delivery", "c_payment", "c_items",
              "c_cache_lock", "c_cache", "c_commit",
              "g_cache_lock", "g_cache", "g_order", "g_payment", "g_delivery", "g_items"}
\* The tasks that are between taking and dropping the guard on the client.
UsingClient ==
    {t \in Handlers : pc[t] \in ClientPcs}
        \cup (IF migrator = "m_run" THEN {MigrationTask} ELSE {})

\* C14: at most one of the creates, gets and the migration is using the client,
\* and it is the holder of the client lock; an open transaction belongs to that
\* one create, its rows are of that create's id only, and no other handler has
\* an insert of its own behind it.
C14_ClientMutualExclusion ==
    /\ Cardinality(UsingClient) <= 1
    /\ UsingClient = (IF dbLock = 0 THEN {} ELSE {dbLock})
    /\ tx # None =>
          /\ dbLock \in Handlers
          /\ req[dbLock].op = "create"
          /\ \A n \in DOMAIN Pending : DOMAIN Pending[n] \subseteq {uid[dbLock]}
    /\ \A t \in Handlers : obs[t].done # << >> => t = dbLock

\* C14 witness: one create is in the middle of its inserts while the create of
\* another aggregate and the migration wait for the client.
C14_Witness ==
    /\ migrator = "m_lock"
    /\ \E t, u \in Handlers :
          /\ pc[t] = "c_payment"
          /\ pc[u] = "c_lock"
          /\ req[t].body # req[u].body

\* C14 witness, second case: the migration runs its statements while a create
\* and a get wait for the client.
C14_WitnessMigration ==
    /\ migrator = "m_run"
    /\ \E t, u \in Handlers : pc[t] = "c_lock" /\ pc[u] = "g_lock"

\* ======================================================================
\* Properties of the sweeper over its period (specification SweepSpec)
\* ======================================================================
\* The entry of key k is one whose ttl ends by the last tick of the interval.
DueBySweep(k) ==
    /\ k \in DOMAIN records
    /\ records[k].last_accessed + records[k].time_to_live <= LastSweepTick

\* C21: no entry whose ttl ends by a tick of the sweeper's interval stays in
\* the map for ever: whether or not anyone looks it up, it is removed (or
\* overwritten by a later insert). For every key, again and again the map
\* holds no such entry under it.
C21_SweeperRemovesExpired ==
    \A k \in Uuids : []<>(~DueBySweep(k))

\* C21 witness: an entry inserted one ttl before the interval's tick is gone
\* right at the tick, when its age equals its ttl and a lookup would not have
\* removed it, while a younger entry stays.
C21_Witness ==
    /\ now = LastSweepTick
    /\ sweeper = "s_wait"
    /\ nextSweep > now
    /\ \E k \in DOMAIN written :
          /\ written[k].at = LastSweepTick - TTL_SECS
          /\ k \notin DOMAIN records
    /\ records # << >>

====
